---- MODULE Spec2Model ----
(***************************************************************************)
(* Model of the exploratory-data-analysis helpers of fem-iot-workshop:     *)
(*   src/src/utils.py, src/src/visualizations.py                           *)
(*       create_pie_chart_with_grouped_threshold, plot_measuring_points    *)
(*   src/src/timeseries.py                                                 *)
(*       run_adfuller_test, run_kpss_test                                  *)
(* The state is what a calling session can observe: the tables it passes   *)
(* in, the matplotlib axes, what was handed to the renderers, the verdicts *)
(* returned and the exception that escaped the last call.                  *)
(***************************************************************************)
EXTENDS Integers, Sequences, FiniteSets, TLC

VARIABLES
    loaded,      \* which dataset the session currently holds
    input_df,    \* category column of the pie chart's table: value -> number of rows
    ax,          \* the matplotlib axes given to the pie chart
    plot_called, \* whether Series.plot was called by the last pie-chart call
    plotted,     \* the Series handed to Series.plot: <<[label, sizes], ...>>
    df,          \* the measuring points table: its columns and their contents
    fig,         \* what plot_measuring_points built: ids used, hover label, figure shown
    timeseries,  \* number of observations of the series under test
    runs,        \* the completed stationarity tests: function, external result, verdict
    call         \* the last call: function, arguments, escaped exception

vars == <<loaded, input_df, ax, plot_called, plotted, df, fig, timeseries, runs, call>>

----------------------------------------------------------------------------
(* Bounds of the model *)

MaxRows == 4     \* rows of a category table
MaxObs == 2      \* observations of a series
MaxRuns == 2     \* stationarity tests remembered per series
MaxCoordLen == 3 \* characters of a coordinates cell

----------------------------------------------------------------------------
(* Values *)

NaN == "NaN"                                 \* a missing category value
LabelOrder == <<"A", "B", "C", "D", "Others">>    \* the labels, in the order groupby sorts its keys
Labels == {LabelOrder[i] : i \in DOMAIN LabelOrder}
CellValues == Labels \cup {NaN}

\* threshold, in hundredths; 1 is the default 0.01
Thresholds == {1, 5, 25, 50, 100}
GroupedLabels == {"Others", "B"}

NoCall == [fn |-> "none", threshold |-> 0, grouped_label |-> "", error |-> "none"]

RECURSIVE SumOver(_, _)
SumOver(f, S) ==
    IF S = {} THEN 0
    ELSE LET x == CHOOSE y \in S : TRUE IN f[x] + SumOver(f, S \ {x})

\* len(input_df)
NumRows(table) == SumOver(table, DOMAIN table)

EmptyTable == [v \in CellValues |-> 0]
\* {A:50, B:45, C:3, D:2}: a table of 100 rows
ExampleTable == [v \in CellValues |->
    IF v = "A" THEN 50 ELSE IF v = "B" THEN 45 ELSE IF v = "C" THEN 3
    ELSE IF v = "D" THEN 2 ELSE 0]
CategoryTables ==
    {t \in [CellValues -> 0..MaxRows] : NumRows(t) <= MaxRows} \cup {ExampleTable}

----------------------------------------------------------------------------
(* create_pie_chart_with_grouped_threshold *)

RECURSIVE SumSizes(_)
SumSizes(s) == IF s = <<>> THEN 0 ELSE Head(s).sizes + SumSizes(Tail(s))

\* input_df.groupby(column_name).size().to_frame().reset_index().rename(...):
\* one row per distinct key in sorted key order; groupby's default dropna=True
\* leaves out the rows whose key is missing.
GroupBySize(table) ==
    LET keys == SelectSeq(LabelOrder, LAMBDA k : table[k] > 0)
    IN  [i \in DOMAIN keys |-> [key |-> keys[i], sizes |-> table[keys[i]]]]

\* grouped_df.perc < threshold, with perc = sizes / sizes.sum() and the
\* threshold in hundredths
CondLtThreshold(sizes, total, threshold) == sizes * 100 < threshold * total

\* the label_cleaned column: grouped_label where the condition holds,
\* filled with the key elsewhere
LabelCleaned(grouped_df, threshold, grouped_label) ==
    LET total == SumSizes(grouped_df)
    IN  [i \in DOMAIN grouped_df |->
            [key |-> grouped_df[i].key,
             sizes |-> grouped_df[i].sizes,
             label_cleaned |->
                IF CondLtThreshold(grouped_df[i].sizes, total, threshold)
                THEN grouped_label
                ELSE grouped_df[i].key]]

RECURSIVE SizesOf(_, _)
SizesOf(grouped_df, label) ==
    IF grouped_df = <<>> THEN 0
    ELSE (IF Head(grouped_df).label_cleaned = label THEN Head(grouped_df).sizes ELSE 0)
         + SizesOf(Tail(grouped_df), label)

\* grouped_df.groupby('label_cleaned').sizes.sum(): one row per label, in
\* sorted label order
GroupByLabelSum(grouped_df) ==
    LET keys == SelectSeq(LabelOrder,
                    LAMBDA k : \E i \in DOMAIN grouped_df : grouped_df[i].label_cleaned = k)
    IN  [i \in DOMAIN keys |-> [label |-> keys[i], sizes |-> SizesOf(grouped_df, keys[i])]]

RECURSIVE InsertBySizes(_, _)
InsertBySizes(row, sorted) ==
    IF sorted = <<>> THEN <<row>>
    ELSE IF row.sizes < Head(sorted).sizes THEN <<row>> \o sorted
    ELSE <<Head(sorted)>> \o InsertBySizes(row, Tail(sorted))

RECURSIVE SortFrom(_, _)
SortFrom(series, sorted) ==
    IF series = <<>> THEN sorted
    ELSE SortFrom(Tail(series), InsertBySizes(Head(series), sorted))

NoSort(series) == series

\* Series.sort_values(): ascending by value. The default kind sorts short
\* arrays by insertion, which keeps equal values in their previous order.
SortValues(series) == SortFrom(series, <<>>)

\* `not grouped_df.empty`
NotEmpty(grouped_df) == grouped_df # <<>>

CreatePieChart ==
    /\ loaded = "categories"
    /\ \E threshold \in Thresholds, grouped_label \in GroupedLabels :
        LET grouped_df == GroupBySize(input_df) IN
        /\ IF NotEmpty(grouped_df)
           THEN /\ plotted' = SortValues(GroupByLabelSum(
                                  LabelCleaned(grouped_df, threshold, grouped_label)))
                /\ plot_called' = TRUE
                /\ ax' = ax
           ELSE /\ ax' = "removed"
                /\ plot_called' = FALSE
                /\ plotted' = <<>>
        /\ call' = [fn |-> "create_pie_chart_with_grouped_threshold",
                    threshold |-> threshold, grouped_label |-> grouped_label,
                    error |-> "none"]
    /\ UNCHANGED <<loaded, input_df, df, fig, timeseries, runs>>

----------------------------------------------------------------------------
(* plot_measuring_points *)

Chars == {"1", ",", "x"}
CoordStrings == UNION {[1..n -> Chars] : n \in 0..MaxCoordLen}
CallerColumns == {"coordinates", "id", "measuring_point_id", "description"}

NaNFloat == [nan |-> TRUE, value |-> 0]
Float(v) == [nan |-> FALSE, value |-> v]

NoFrame == [cols |-> {}, coordinates |-> <<>>, lat |-> NaNFloat, lon |-> NaNFloat,
            text |-> <<>>]
NoFig == [measuring_point_ids |-> "", shown |-> FALSE]

\* the caller's tables: one row, the coordinates cell any short string
PointTables ==
    UNION {{[cols |-> c, coordinates |-> s, lat |-> NaNFloat, lon |-> NaNFloat,
             text |-> <<>>] :
                s \in IF "coordinates" \in c THEN CoordStrings ELSE {<<>>}} :
           c \in SUBSET CallerColumns}

\* Series.str.split(','): the pieces between the commas
RECURSIVE SplitFrom(_, _)
SplitFrom(s, piece) ==
    IF s = <<>> THEN <<piece>>
    ELSE IF Head(s) = "," THEN <<piece>> \o SplitFrom(Tail(s), <<>>)
    ELSE SplitFrom(Tail(s), Append(piece, Head(s)))

StrSplit(s) == SplitFrom(s, <<>>)

\* .str[i] of the split pieces (0-based); a missing piece is NaN
HasPiece(pieces, i) == i + 1 <= Len(pieces)

\* .astype('float') of one piece: NaN stays NaN, a string of digits is its
\* number, anything else (the empty string too) raises ValueError
IsNumeric(piece) == piece # <<>> /\ \A i \in DOMAIN piece : piece[i] = "1"

RECURSIVE DigitsValue(_, _)
DigitsValue(piece, acc) ==
    IF piece = <<>> THEN acc ELSE DigitsValue(Tail(piece), 10 * acc + 1)

AsTypeFloatRaises(pieces, i) == HasPiece(pieces, i) /\ ~IsNumeric(pieces[i + 1])
AsTypeFloat(pieces, i) ==
    IF HasPiece(pieces, i) THEN Float(DigitsValue(pieces[i + 1], 0)) ELSE NaNFloat

MeasuringPointIdsLast(cols) ==
    IF "measuring_point_id" \in cols THEN "measuring_point_id"
    ELSE IF "id" \in cols THEN "id"
    ELSE "KeyError"

\* try: df['id'] except KeyError: df['measuring_point_id']
MeasuringPointIds(cols) ==
    IF "id" \in cols THEN "id"
    ELSE IF "measuring_point_id" \in cols THEN "measuring_point_id"
    ELSE "KeyError"

MapCall(error) == [fn |-> "plot_measuring_points", threshold |-> 0, grouped_label |-> "",
                   error |-> error]

PlotMeasuringPoints ==
    /\ loaded = "points"
    /\ LET coordinates_column == "coordinates"
           pieces == StrSplit(df.coordinates)
           df1 == [df EXCEPT !.cols = @ \cup {"lat"}, !.lat = AsTypeFloat(pieces, 0)]
           df2 == [df1 EXCEPT !.cols = @ \cup {"lon"}, !.lon = AsTypeFloat(pieces, 1)]
           ids == MeasuringPointIds(df2.cols)
           df3 == [df2 EXCEPT !.cols = @ \cup {"text"}, !.text = <<ids, "description">>]
       IN
       IF coordinates_column \notin df.cols
       THEN /\ call' = MapCall("KeyError: coordinates")
            /\ fig' = NoFig
            /\ df' = df
       ELSE IF AsTypeFloatRaises(pieces, 0)
       THEN /\ call' = MapCall("ValueError")
            /\ fig' = NoFig
            /\ df' = df
       ELSE IF AsTypeFloatRaises(pieces, 1)
       THEN /\ call' = MapCall("ValueError")
            /\ fig' = NoFig
            /\ df' = df1
       ELSE IF ids = "KeyError"
       THEN /\ call' = MapCall("KeyError: measuring_point_id")
            /\ fig' = NoFig
            /\ df' = df2
       ELSE IF "description" \notin df2.cols
       THEN /\ call' = MapCall("KeyError: description")
            /\ fig' = [measuring_point_ids |-> ids, shown |-> FALSE]
            /\ df' = df2
       ELSE /\ call' = MapCall("none")
            /\ fig' = [measuring_point_ids |-> ids, shown |-> TRUE]
            /\ df' = df3
    /\ UNCHANGED <<loaded, input_df, ax, plot_called, plotted, timeseries, runs>>

----------------------------------------------------------------------------
(* run_adfuller_test, run_kpss_test *)

\* The external routines are black boxes: any statistic, p-value, lag count
\* and critical values may come back. Statistics, p-values and critical
\* values are in thousandths.
Statistics == {-3000, 400}
PValues == {10, 50, 51}
LagsFor(n) == 0..(n - 1)
AdfCriticalValues ==
    {[k \in {"1%", "5%", "10%"} |-> IF k = "1%" THEN -3500 ELSE IF k = "5%" THEN -2900 ELSE -2600],
     [k \in {"1%", "5%", "10%"} |-> IF k = "1%" THEN -3400 ELSE IF k = "5%" THEN -2800 ELSE -2500]}
KpssCriticalValues ==
    {[k \in {"10%", "5%", "2.5%", "1%"} |->
        IF k = "10%" THEN 347 ELSE IF k = "5%" THEN 463 ELSE IF k = "2.5%" THEN 574 ELSE 739],
     [k \in {"10%", "5%", "2.5%", "1%"} |->
        IF k = "10%" THEN 119 ELSE IF k = "5%" THEN 146 ELSE IF k = "2.5%" THEN 176 ELSE 216]}

\* adfuller(...) returns (adf, pvalue, usedlag, nobs, critical values, icbest)
AdfResults(n) ==
    {<<st, p, lag, n - lag - 1, cv, 0>> :
        st \in Statistics, p \in PValues, lag \in LagsFor(n), cv \in AdfCriticalValues}

\* kpss(...) returns (kpss_stat, p_value, lags, crit)
KpssResults(n) ==
    {<<st, p, lag, cv>> :
        st \in Statistics, p \in PValues, lag \in LagsFor(n), cv \in KpssCriticalValues}

\* t[i] for a Python tuple or a positional Series lookup (0-based)
Item(t, i) == t[i + 1]

AdfAlpha == 50    \* 0.05
KpssAlpha == 50   \* 0.05

AdfStatistic(result) == Item(result, 0)

\* p_value = result[1]
AdfPValue(result) == Item(result, 1)

AdfRejectsStrict(p_value) == p_value < AdfAlpha

\* p_value <= 0.05
AdfRejects(p_value) == p_value <= AdfAlpha

\* pass_test of run_adfuller_test
AdfPassTest(result) == IF AdfRejects(AdfPValue(result)) THEN TRUE ELSE FALSE

\* kpss_output: pd.Series(kpss_test[0:3]) followed by one entry per critical value
KpssOutput(kpss_test) ==
    LET cv == Item(kpss_test, 3)
    IN  SubSeq(kpss_test, 1, 3) \o <<cv["10%"], cv["5%"], cv["2.5%"], cv["1%"]>>

\* p_value = kpss_output[1]
KpssPValue(kpss_output) == Item(kpss_output, 1)

KpssRejectsStrict(p_value) == p_value < KpssAlpha

\* p_value <= 0.05
KpssRejects(p_value) == p_value <= KpssAlpha

\* pass_test of run_kpss_test
KpssPassTest(kpss_test) ==
    IF KpssRejects(KpssPValue(KpssOutput(kpss_test))) THEN FALSE ELSE TRUE

TestCall(fn, error) == [fn |-> fn, threshold |-> 0, grouped_label |-> "", error |-> error]

\* the external routine raises on a series it cannot test (always on an
\* empty one); the exception propagates and no verdict is returned
RunAdfullerRaises ==
    /\ loaded = "series"
    /\ call' = TestCall("run_adfuller_test", "ValueError")
    /\ UNCHANGED <<loaded, input_df, ax, plot_called, plotted, df, fig, timeseries, runs>>

RunAdfuller ==
    /\ loaded = "series"
    /\ timeseries > 0
    /\ Cardinality(runs) < MaxRuns
    /\ \E result \in AdfResults(timeseries) :
        runs' = runs \cup {[fn |-> "run_adfuller_test", result |-> result,
                            pass_test |-> AdfPassTest(result)]}
    /\ call' = TestCall("run_adfuller_test", "none")
    /\ UNCHANGED <<loaded, input_df, ax, plot_called, plotted, df, fig, timeseries>>

RunKpssRaises ==
    /\ loaded = "series"
    /\ call' = TestCall("run_kpss_test", "ValueError")
    /\ UNCHANGED <<loaded, input_df, ax, plot_called, plotted, df, fig, timeseries, runs>>

RunKpss ==
    /\ loaded = "series"
    /\ timeseries > 0
    /\ Cardinality(runs) < MaxRuns
    /\ \E kpss_test \in KpssResults(timeseries) :
        runs' = runs \cup {[fn |-> "run_kpss_test", result |-> kpss_test,
                            pass_test |-> KpssPassTest(kpss_test)]}
    /\ call' = TestCall("run_kpss_test", "none")
    /\ UNCHANGED <<loaded, input_df, ax, plot_called, plotted, df, fig, timeseries>>

----------------------------------------------------------------------------
(* The calling session *)

Fresh(kind, table, frame, n) ==
    /\ loaded' = kind
    /\ input_df' = table
    /\ df' = frame
    /\ timeseries' = n
    /\ ax' = "present"
    /\ plot_called' = FALSE
    /\ plotted' = <<>>
    /\ fig' = NoFig
    /\ runs' = {}
    /\ call' = NoCall

\* the session takes up a dataset
Load(kind, table, frame, n) ==
    /\ loaded = "none"
    /\ Fresh(kind, table, frame, n)

LoadCategories == \E t \in CategoryTables : Load("categories", t, NoFrame, 0)
LoadPoints == \E f \in PointTables : Load("points", EmptyTable, f, 0)
LoadSeries == \E n \in 0..MaxObs : Load("series", EmptyTable, NoFrame, n)

\* the session drops its dataset and what the calls on it left behind
Close ==
    /\ loaded # "none"
    /\ Fresh("none", EmptyTable, NoFrame, 0)

\* the values the state takes
TypeOK ==
    /\ loaded \in {"none", "categories", "points", "series"}
    /\ input_df \in [CellValues -> Nat]
    /\ ax \in {"present", "removed"}
    /\ plot_called \in BOOLEAN
    /\ \A i \in DOMAIN plotted : plotted[i].label \in Labels /\ plotted[i].sizes \in Nat
    /\ df.cols \subseteq CallerColumns \cup {"lat", "lon", "text"}
    /\ fig.measuring_point_ids \in {"", "id", "measuring_point_id"}
    /\ fig.shown \in BOOLEAN
    /\ timeseries \in 0..MaxObs
    /\ Cardinality(runs) <= MaxRuns
    /\ \A r \in runs : r.fn \in {"run_adfuller_test", "run_kpss_test"} /\ r.pass_test \in BOOLEAN
    /\ call.error \in {"none", "ValueError", "KeyError: coordinates",
                        "KeyError: measuring_point_id", "KeyError: description"}

Init ==
    /\ loaded = "none"
    /\ input_df = EmptyTable
    /\ df = NoFrame
    /\ timeseries = 0
    /\ ax = "present"
    /\ plot_called = FALSE
    /\ plotted = <<>>
    /\ fig = NoFig
    /\ runs = {}
    /\ call = NoCall

Next ==
    \/ LoadCategories
    \/ LoadPoints
    \/ LoadSeries
    \/ Close
    \/ CreatePieChart
    \/ PlotMeasuringPoints
    \/ RunAdfuller
    \/ RunAdfullerRaises
    \/ RunKpss
    \/ RunKpssRaises

Spec == Init /\ [][Next]_vars

----------------------------------------------------------------------------
(* Properties of the stationarity verdicts *)

\* the external routine's p_value: the second component of what it returns
PValueOf(run) == run.result[2]

\* C1: every completed run_adfuller_test returned TRUE exactly when the
\* external routine's p_value was <= 0.05 (50 thousandths), FALSE otherwise.
C1_AdfVerdict ==
    \A r \in runs :
        r.fn = "run_adfuller_test" => (r.pass_test <=> PValueOf(r) <= 50)

\* a run of the ADF test at the boundary p_value = 0.05, answered TRUE
C1_Witness ==
    \E r \in runs : r.fn = "run_adfuller_test" /\ PValueOf(r) = 50 /\ r.pass_test

C8_VerdictDependsOnPValueOnly ==
    \A r1, r2 \in runs :
        (r1.fn = r2.fn /\ PValueOf(r1) = PValueOf(r2)) => r1.pass_test = r2.pass_test

\* two ADF runs with the same p_value whose statistic, lags and critical
\* values all differ
C8_Witness ==
    \E r1, r2 \in runs :
        /\ r1.fn = "run_adfuller_test" /\ r2.fn = "run_adfuller_test"
        /\ PValueOf(r1) = PValueOf(r2)
        /\ r1.result[1] # r2.result[1]
        /\ r1.result[3] # r2.result[3]
        /\ r1.result[5] # r2.result[5]
        /\ r1.pass_test = r2.pass_test

----------------------------------------------------------------------------
(* Properties of the threshold grouping *)

PieDone == call.fn = "create_pie_chart_with_grouped_threshold"

\* the distinct category values of the table
Categories == {k \in Labels : input_df[k] > 0}

\* a category's fraction of the total row count is strictly below the threshold
BelowThreshold(count) == count * 100 < call.threshold * NumRows(input_df)

FinalLabel(k) == IF BelowThreshold(input_df[k]) THEN call.grouped_label ELSE k
FinalLabels == {FinalLabel(k) : k \in Categories}
FinalCount(l) == SumOver(input_df, {k \in Categories : FinalLabel(k) = l})

GroupedAsClaimed ==
    /\ plot_called
    /\ Len(plotted) = Cardinality(FinalLabels)
    /\ \A l \in FinalLabels :
        \E i \in DOMAIN plotted : plotted[i] = [label |-> l, sizes |-> FinalCount(l)]

AboveThresholdUnlessGrouped ==
    \A i \in DOMAIN plotted :
        plotted[i].label # call.grouped_label => ~BelowThreshold(plotted[i].sizes)

NothingToRender == ax = "removed" /\ ~plot_called /\ plotted = <<>>

\* C3: after a call on a table with at least one row, the summary has exactly
\* one row per final label, where a category's final label is grouped_label
\* when its fraction of the total row count is strictly below the threshold
\* and its own label otherwise, and a row's count is the sum of the counts of
\* the categories with that final label.
C3_GroupedByThreshold == (PieDone /\ NumRows(input_df) > 0) => GroupedAsClaimed

\* C4: after a call, the counts of the summary add up to the number of rows
\* of the input table.
C4_RowsConserved == PieDone => SumSizes(plotted) = NumRows(input_df)

\* C5: after a call, every row of the summary whose label is not
\* grouped_label has a fraction of the total row count that is >= threshold.
C5_OnlyGroupedBelowThreshold == PieDone => AboveThresholdUnlessGrouped

\* C6: after a call on a table with zero rows the axes are removed and
\* nothing was plotted; after a call on a table with at least one row a
\* summary was plotted and the axes are still there.
C6_EmptyMeansNothingToRender ==
    PieDone =>
        /\ NumRows(input_df) = 0 => NothingToRender
        /\ NumRows(input_df) > 0 => (plot_called /\ ax = "present")

\* On tables without missing category values C3 to C6 all hold.
GroupingOnCompleteTables ==
    (PieDone /\ input_df[NaN] = 0) =>
        /\ NumRows(input_df) > 0 => GroupedAsClaimed
        /\ SumSizes(plotted) = NumRows(input_df)
        /\ AboveThresholdUnlessGrouped
        /\ NumRows(input_df) = 0 => NothingToRender
        /\ NumRows(input_df) > 0 => (plot_called /\ ax = "present")

\* C10: the rows of the summary handed to the renderer are in ascending
\* order of count: each row's count is <= the next row's.
C10_AscendingByCount ==
    plot_called =>
        \A i \in 1..(Len(plotted) - 1) : plotted[i].sizes <= plotted[i + 1].sizes

\* the scenario {A:50, B:45, C:3, D:2} with threshold 0.05 and label Others
C10_Witness ==
    /\ PieDone
    /\ input_df = ExampleTable
    /\ call.threshold = 5 /\ call.grouped_label = "Others"
    /\ plotted = <<[label |-> "Others", sizes |-> 5], [label |-> "B", sizes |-> 45],
                   [label |-> "A", sizes |-> 50]>>

----------------------------------------------------------------------------
(* Properties of plot_measuring_points *)

MapDone == call.fn = "plot_measuring_points"
HasNeitherId == "id" \notin df.cols /\ "measuring_point_id" \notin df.cols
MissingColumnErrors ==
    {"KeyError: coordinates", "KeyError: measuring_point_id", "KeyError: description"}
NoHoverNoMap == "text" \notin df.cols /\ df.text = <<>> /\ ~fig.shown
\* the coordinates were split and converted, so the identifier lookup ran
CoordinatesConverted == call.error \notin {"KeyError: coordinates", "ValueError"}

\* C7 as stated: an identifier column is only ever picked in the order id,
\* then measuring_point_id, and on a table with neither column the call fails
\* with a missing-column error, builds no hover label and displays no map.
C7_AsStated ==
    MapDone =>
        /\ (fig.measuring_point_ids # "" /\ "id" \in df.cols) => fig.measuring_point_ids = "id"
        /\ (fig.measuring_point_ids # "" /\ "id" \notin df.cols) =>
                fig.measuring_point_ids = "measuring_point_id"
        /\ HasNeitherId => (call.error \in MissingColumnErrors /\ NoHoverNoMap)

\* C7, amended: once the coordinates are converted, id is picked when the
\* table has it, otherwise measuring_point_id, and with neither column the
\* call fails with the KeyError of measuring_point_id; on a table with
\* neither column every call fails, builds no hover label and displays no map.
C7_IdColumnOrder ==
    MapDone =>
        /\ (CoordinatesConverted /\ "id" \in df.cols) => fig.measuring_point_ids = "id"
        /\ (CoordinatesConverted /\ "id" \notin df.cols /\ "measuring_point_id" \in df.cols) =>
                fig.measuring_point_ids = "measuring_point_id"
        /\ (CoordinatesConverted /\ HasNeitherId) =>
                call.error = "KeyError: measuring_point_id"
        /\ HasNeitherId => (call.error # "none" /\ NoHoverNoMap)

\* a call on a table with converted coordinates and neither identifier column
C7_Witness ==
    /\ MapDone
    /\ HasNeitherId
    /\ {"coordinates", "description", "lat", "lon"} \subseteq df.cols
    /\ call.error = "KeyError: measuring_point_id"

----------------------------------------------------------------------------
(* Purity *)

CallStep ==
    \/ CreatePieChart
    \/ PlotMeasuringPoints
    \/ RunAdfuller
    \/ RunAdfullerRaises
    \/ RunKpss
    \/ RunKpssRaises

\* C9: no call changes the table it was given: across every step that is a
\* call of one of the four functions, the caller's tables keep their columns
\* and values.
C9_InputsUntouched ==
    [][CallStep => (input_df' = input_df /\ df' = df /\ timeseries' = timeseries)]_vars

\* The calls other than plot_measuring_points leave the caller's tables alone.
OnlyTheMapCallMutates ==
    [][(CallStep /\ ~PlotMeasuringPoints) =>
            (input_df' = input_df /\ df' = df /\ timeseries' = timeseries)]_vars

====
